---------------------------- MODULE Spec2Model ----------------------------
(***************************************************************************)
(* Model of the ambient noise mixer of src/app/test.py: the process        *)
(* lifecycle (main, AmbientMixerApp.__init__, the Tk event loop, on_close),*)
(* the volume handler on_volume_change with Python's float arithmetic, and *)
(* the procedural sound path (_load_sound, _create_sound).                 *)
(***************************************************************************)
EXTENDS Integers, Sequences, FiniteSets, TLC

(***************************************************************************)
(* Bounds of the model.                                                    *)
(***************************************************************************)
\* how far the raw slider values of the model go below 0 and above 100
RawOver == 3
\* the number of volume-change events of one run of the event loop
MaxEvents == 2
\* the longest generated signal (in samples) handed to _create_sound
MaxFrames == 3
\* how often on_close is invoked in one run
MaxCloses == 2

(***************************************************************************)
(* Program constants.                                                      *)
(***************************************************************************)
SAMPLE_RATE == 44100
\* int16 full scale of the -16 mixer format (samples * 32767)
INT16_SCALE == 32767
\* mantissa width of a Python float (IEEE-754 binary64)
DBL_MANT_DIG == 53

SOUND_PROFILES ==
  << [name |-> "Birds",        filename |-> "birds.wav"],
     [name |-> "Crickets",     filename |-> "cricket.wav"],
     [name |-> "Fire",         filename |-> "fire.wav"],
     [name |-> "Rainfall",     filename |-> "rain.wav"],
     [name |-> "Singing Bowl", filename |-> "singingbowl.wav"],
     [name |-> "Ocean Waves",  filename |-> "waves.wav"],
     [name |-> "Wind",         filename |-> "wind.wav"],
     [name |-> "Coffee Shop",  filename |-> "coffeeshop.wav"] >>

NumProfiles == Len(SOUND_PROFILES)
ProfileNames == { SOUND_PROFILES[i].name : i \in 1..NumProfiles }
\* the mixer slot _build_sounds gives a profile: pygame.mixer.Channel(idx)
SlotOf(name) == CHOOSE i \in 1..NumProfiles : SOUND_PROFILES[i].name = name

(***************************************************************************)
(* Python floats.  A float is [s, hi, lo, e] with value s * m * 2^e, where  *)
(* the mantissa m = hi * 2^LoBits + lo has exactly DBL_MANT_DIG bits (0    *)
(* for 0.0).  Bit sequences are little-endian.  Division and               *)
(* multiplication round to nearest, ties to even, as IEEE-754 binary64.    *)
(***************************************************************************)
\* the arithmetic below works on chunks of ChunkBits bits at a time
ChunkBits == 6 + 7

\* the w low bits of n, least significant first
NatToBitsW(n, w) == [i \in 1..w |-> (n \div (2 ^ (i - 1))) % 2]
BitLen(n) == IF n = 0 THEN 0 ELSE CHOOSE w \in 1..31 : 2 ^ (w - 1) <= n /\ (w = 31 \/ n < 2 ^ w)
NatToBits(n) == NatToBitsW(n, BitLen(n))

RECURSIVE ChunkToNat(_)
ChunkToNat(b) == IF b = << >> THEN 0 ELSE b[1] + 2 * ChunkToNat(Tail(b))
BitsToNat(b) == ChunkToNat(b)

TopBit(b) == IF \E i \in 1..Len(b) : b[i] = 1
               THEN CHOOSE i \in 1..Len(b) : b[i] = 1 /\ \A j \in (i + 1)..Len(b) : b[j] = 0
               ELSE 0
Trim(b) == SubSeq(b, 1, TopBit(b))

Zeros(n) == [i \in 1..n |-> 0]
Shl(b, n) == IF b = << >> THEN b ELSE Zeros(n) \o b

\* b * k + c for a small k and carry c, one chunk at a time
RECURSIVE MulAdd(_, _, _)
MulAdd(b, k, c) ==
  IF b = << >> THEN NatToBits(c)
  ELSE LET n == IF Len(b) < ChunkBits THEN Len(b) ELSE ChunkBits
           t == ChunkToNat(SubSeq(b, 1, n)) * k + c
       IN  NatToBitsW(t % (2 ^ n), n) \o MulAdd(SubSeq(b, n + 1, Len(b)), k, t \div (2 ^ n))

\* long division of b by a small k, from the most significant chunk down
RECURSIVE DivStep(_, _, _, _)
DivStep(b, k, r, q) ==
  IF b = << >> THEN [q |-> Trim(q), r |-> r]
  ELSE LET n == IF Len(b) % ChunkBits = 0 THEN ChunkBits ELSE Len(b) % ChunkBits
           t == r * (2 ^ n) + ChunkToNat(SubSeq(b, Len(b) - n + 1, Len(b)))
       IN  DivStep(SubSeq(b, 1, Len(b) - n), k, t % k, NatToBitsW(t \div k, n) \o q)
DivRem(b, k) == DivStep(b, k, 0, << >>)

\* a float keeps its mantissa as two integers: hi * 2^LoBits + lo
LoBits == DBL_MANT_DIG \div 2 + 1
Mant(x) == NatToBitsW(x.lo, LoBits) \o NatToBitsW(x.hi, DBL_MANT_DIG - LoBits)

\* the float of sign s, mantissa bits m and exponent e; a mantissa one bit
\* too long (a carry out of rounding) is renormalised
MakeFloat(s, m, e) ==
  LET long == Len(m) > DBL_MANT_DIG
      mm   == IF long THEN SubSeq(m, 2, Len(m)) ELSE m
  IN  [s |-> s, hi |-> BitsToNat(SubSeq(mm, LoBits + 1, Len(mm))),
       lo |-> BitsToNat(SubSeq(mm, 1, LoBits)), e |-> IF long THEN e + 1 ELSE e]

FZero == [s |-> 0, hi |-> 0, lo |-> 0, e |-> 0]
FOne  == MakeFloat(1, Shl(<< 1 >>, DBL_MANT_DIG - 1), 1 - DBL_MANT_DIG)

\* float(a) / float(k) for integers a and k > 0 (raw_value / 100.0)
FDivInt(a, k) ==
  IF a = 0 THEN FZero
  ELSE LET mag  == IF a < 0 THEN -a ELSE a
           sgn  == IF a < 0 THEN -1 ELSE 1
           A    == NatToBits(mag)
           s0   == DBL_MANT_DIG + Len(NatToBits(k)) - Len(A)
           d0   == DivRem(Shl(A, s0), k)
           sh   == IF Len(d0.q) > DBL_MANT_DIG THEN s0 - 1 ELSE s0
           d    == IF sh = s0 THEN d0 ELSE DivRem(Shl(A, sh), k)
           up   == 2 * d.r > k \/ (2 * d.r = k /\ d.q[1] = 1)
           q    == IF up THEN MulAdd(d.q, 1, 1) ELSE d.q
       IN  MakeFloat(sgn, q, -sh)

\* x * float(k) for a small integer k > 0 (volume * 100)
FMulInt(x, k) ==
  IF x.s = 0 THEN FZero
  ELSE LET P    == MulAdd(Mant(x), k, 0)
           t    == Len(P) - DBL_MANT_DIG
           keep == SubSeq(P, t + 1, Len(P))
           up   == t > 0 /\ P[t] = 1
                   /\ (keep[1] = 1 \/ \E i \in 1..(t - 1) : P[i] = 1)
           q    == IF up THEN MulAdd(keep, 1, 1) ELSE keep
       IN  MakeFloat(x.s, q, x.e + t)

\* |x| < |y| for two floats that are not 0.0
MagLess(x, y) ==
  IF x.e # y.e THEN x.e < y.e
  ELSE IF x.hi # y.hi THEN x.hi < y.hi
  ELSE x.lo < y.lo

\* x < y
FLess(x, y) ==
  IF x.s # y.s THEN x.s < y.s
  ELSE IF x.s = 0 THEN FALSE
  ELSE IF x.s = 1 THEN MagLess(x, y) ELSE MagLess(y, x)

\* Python's min(a, b) and max(a, b): the first argument unless the second beats it
PyMin(a, b) == IF FLess(b, a) THEN b ELSE a
PyMax(a, b) == IF FLess(a, b) THEN b ELSE a

\* int(x): truncation toward zero (x with a negative exponent, as volume * 100 has)
FToInt(x) ==
  IF x.s = 0 \/ -x.e >= DBL_MANT_DIG THEN 0
  ELSE x.s * BitsToNat(SubSeq(Mant(x), 1 - x.e, DBL_MANT_DIG))

(***************************************************************************)
(* The procedural sound path.  A float32 sample is modelled by the number  *)
(* of halves it holds (1.0 is 2): with generated samples in SampleValues   *)
(* and at most 5 of them, every value normalize, apply_fade_edges and the  *)
(* int16 conversion produce is a multiple of 1/2, exact in float32.        *)
(***************************************************************************)
NoSound == [kind |-> "none"]
FileSound(filename) == [kind |-> "file", file |-> filename]

\* the sample values the modelled generators return
SampleValues == -2..2
\* the channel counts a mixer can have; 0 stands for a mixer that is not initialised
MixerLayouts == {0, 1, 2, 4, 6}

Abs(x) == IF x < 0 THEN -x ELSE x
MinOf(a, b) == IF a < b THEN a ELSE b
MaxAbs(samples) == CHOOSE m \in { Abs(samples[i]) : i \in 1..Len(samples) } :
                     \A i \in 1..Len(samples) : Abs(samples[i]) <= m
\* truncation toward zero of a / b, for b > 0 (astype(np.int16))
TruncDiv(a, b) == IF a < 0 THEN -((-a) \div b) ELSE a \div b

\* np.asarray(generator(), dtype=np.float32)
AsFloat32(signal) == [i \in 1..Len(signal) |-> 2 * signal[i]]

\* np.max of an empty array raises ValueError
normalize(samples) ==
  IF Len(samples) = 0 THEN [exc |-> "ValueError", v |-> samples]
  ELSE LET peak == MaxAbs(samples)
       IN  IF peak = 0 THEN [exc |-> "none", v |-> samples]
           ELSE [exc |-> "none",
                 v |-> [i \in 1..Len(samples) |-> TruncDiv(2 * samples[i], peak)]]

\* np.linspace(0.0, 1.0, fade_len)[i - 1], for fade_len <= 2
Ramp(fade_len, i) == IF fade_len = 1 THEN 0 ELSE i - 1

apply_fade_edges(samples) ==
  LET n        == Len(samples)
      fade_len == MinOf(SAMPLE_RATE \div 10, n \div 2)
  IN  IF fade_len <= 0 THEN samples
      ELSE [i \in 1..n |->
              IF i <= fade_len THEN samples[i] * Ramp(fade_len, i)
              ELSE IF i > n - fade_len
                THEN samples[i] * Ramp(fade_len, n - i + 1)
              ELSE samples[i]]

\* np.clip(samples * 32767, -32768, 32767).astype(np.int16), of one sample
ToInt16(h) ==
  LET scaled == h * INT16_SCALE
      lo     == 2 * (-INT16_SCALE - 1)
      hi     == 2 * INT16_SCALE
      clip   == IF scaled < lo THEN lo ELSE IF scaled > hi THEN hi ELSE scaled
  IN  TruncDiv(clip, 2)

\* an ndarray: ndim 1 of shape (n,), or ndim 2 of shape (n, depth)
MonoArray(samples) == [ndim |-> 1, depth |-> 1, data |-> samples]
\* np.tile(raw[:, None], (1, channels))
TiledArray(samples, chans) ==
  [ndim |-> 2, depth |-> chans,
   data |-> [i \in 1..Len(samples) |-> [c \in 1..chans |-> samples[i]]]]
EncodeArray(arr) ==
  [arr EXCEPT !.data =
     [i \in 1..Len(arr.data) |->
        IF arr.ndim = 1 THEN ToInt16(arr.data[i])
        ELSE [c \in 1..arr.depth |-> ToInt16(arr.data[i][c])]]]

\* pygame.mixer.get_init(): None (0) or the channel count of the mixer
get_init(mixer) == mixer

\* pygame.sndarray.make_sound(array): the array must fit the mixer's layout
make_sound(arr, mixer) ==
  IF mixer = 0 THEN [exc |-> "pygame.error", sound |-> NoSound]
  ELSE IF mixer = 1 /\ arr.ndim # 1 THEN [exc |-> "ValueError", sound |-> NoSound]
  ELSE IF mixer > 1 /\ (arr.ndim # 2 \/ arr.depth # mixer)
    THEN [exc |-> "ValueError", sound |-> NoSound]
  ELSE [exc |-> "none",
        sound |-> [kind |-> "array", ndim |-> arr.ndim, depth |-> arr.depth,
                   data |-> arr.data]]

\* mutant: the signal is tiled whatever the channel count (no mono shape)
ShapeFor_AlwaysTiled(raw, chans) == TiledArray(raw, chans)
\* lines 120-124: shape (n,) for mono, (n, channels) otherwise
ShapeFor(raw, chans) ==
  IF chans <= 1 THEN MonoArray(raw) ELSE TiledArray(raw, chans)

AudioGenMsg(chans) == [kind |-> "AudioGen mono fallback", channels |-> chans]

\* _create_sound(generator), with `signal` what generator() returns
create_sound(signal, mixer) ==
  LET norm == normalize(AsFloat32(signal))
  IN  IF norm.exc # "none"
        THEN [exc |-> norm.exc, sound |-> NoSound, out |-> {}]
      ELSE
        LET raw       == apply_fade_edges(norm.v)
            init_info == get_init(mixer)
            chans     == IF init_info = 0 THEN 2 ELSE init_info
            samples   == ShapeFor(raw, chans)
            first     == make_sound(EncodeArray(samples), mixer)
        IN  IF first.exc = "ValueError"
              THEN LET again == make_sound(EncodeArray(MonoArray(raw)), mixer)
                   IN  [exc |-> again.exc, sound |-> again.sound,
                        out |-> {AudioGenMsg(chans)}]
              ELSE [exc |-> first.exc, sound |-> first.sound, out |-> {}]

\* the float literals of the program
FHalf == FDivInt(1, 2)

(***************************************************************************)
(* pygame's mixer and Tk, as far as the program uses them.                 *)
(***************************************************************************)

\* a mixer channel that has not been played: no sound, pygame's default volume 1.0
IdleChannel == [sound |-> NoSound, state |-> "Stopped", volume |-> FOne]

\* mutant: the sound is bound but playback is never started
ChannelPlay_NoLoop(ch, sound) == [ch EXCEPT !.sound = sound]
\* channel.play(sound, loops=-1)
ChannelPlay(ch, sound) == [ch EXCEPT !.sound = sound, !.state = "Looping"]
\* channel.set_volume(volume)
ChannelSetVolume(ch, volume) == [ch EXCEPT !.volume = volume]
\* channel.stop()
ChannelStop(ch) == [ch EXCEPT !.state = "Stopped"]

\* the outcomes of probing and decoding a profile's file
FileStates == {"ok", "missing", "corrupt"}
\* the names a volume-change event can carry: the sliders' and a stale one
EventNames == ProfileNames \cup {"Nonexistent"}

\* the lines the program prints
MissingMsg(profile) == [kind |-> "missing audio file", name |-> profile.name,
                        file |-> profile.filename]
UnableMsg(profile)  == [kind |-> "unable to load", name |-> profile.name,
                        file |-> profile.filename]
AudioErrMsg == [kind |-> "audio subsystem error"]
GuiErrMsg   == [kind |-> "unable to start the GUI"]

\* a dict with key k set to v
Put(d, k, v) == [x \in DOMAIN d \cup {k} |-> IF x = k THEN v ELSE d[x]]
EmptyDict == [x \in {} |-> 0]

\* _load_sound(profile), with fstate what the file system and the decoder answer
load_sound(profile, fstate, mixer) ==
  IF fstate = "ok"
    THEN [exc |-> "none", sound |-> FileSound(profile.filename), out |-> {}]
  ELSE LET line == IF fstate = "corrupt" THEN UnableMsg(profile)
                   ELSE MissingMsg(profile)
       IN  IF "fallback" \notin DOMAIN profile
             THEN [exc |-> "KeyError", sound |-> NoSound, out |-> {line}]
             ELSE LET made == create_sound(profile.fallback, mixer)
                  IN  [exc |-> made.exc, sound |-> made.sound,
                       out |-> {line} \cup made.out]

\* mutant: the channel keeps pygame's default volume
InitialVolume_Full == FOne
\* channel.set_volume(0.5) of _build_sounds
InitialVolume == FHalf
\* tk.StringVar(value="50%") of _build_ui
InitialLabel == 50

\* the raw values of the volume-change events
RawRange == (0 - RawOver)..(100 + RawOver)
RawSamples == {0 - RawOver, 29, 75, 100 + RawOver}

\* mutant: the upper clamp is missing
ClampVolume_NoUpper(raw_value) == PyMax(FZero, FDivInt(raw_value, 100))
\* volume = max(0.0, min(raw_value / 100.0, 1.0))
ClampVolume(raw_value) == PyMax(FZero, PyMin(FDivInt(raw_value, 100), FOne))
\* int(volume * 100)
LabelPercent(volume) == FToInt(FMulInt(volume, 100))
VolumeOf == [v \in RawRange |-> ClampVolume(v)]
LabelOf == [v \in RawRange |-> LabelPercent(VolumeOf[v])]

\* mutant: an unknown name falls back to the first channel
TargetChannels_Default(name, chans) ==
  IF name \in DOMAIN chans THEN {chans[name]} ELSE {1}
\* if name in self.channels: the channel set_volume is called on
TargetChannels(name, chans) == IF name \in DOMAIN chans THEN {chans[name]} ELSE {}
\* if name in self.value_labels: the label that is set
TargetLabels(name, labels) == IF name \in DOMAIN labels THEN {name} ELSE {}

\* for channel in self.channels.values(): channel.stop()
StopAll(sl, chans) ==
  [i \in DOMAIN sl |->
     IF \E n \in DOMAIN chans : chans[n] = i THEN ChannelStop(sl[i]) ELSE sl[i]]

VARIABLES
  pc,           \* where the process is: main, init_audio, build_sounds, build_ui,
                \* mainloop, exited (the process), or create_sound (a bare call)
  raised,       \* the exception that left main ("none" if none did)
  exitCode,     \* the process's exit status, -1 while it runs
  stdout,       \* the set of lines printed so far
  rootAlive,    \* tk.Tk() succeeded and the root has not been destroyed
  closeBound,   \* WM_DELETE_WINDOW is bound to on_close
  mixerInit,    \* pygame.mixer is initialised
  slots,        \* pygame's mixer channels, by index
  buildIdx,     \* the profile _build_sounds handles next
  fileState,    \* what _load_sound found for each profile so far
  sounds,       \* self.sounds
  channels,     \* self.channels: name -> mixer channel index
  value_labels, \* self.value_labels: name -> the percentage shown
  events,       \* the number of volume-change events handled
  lastRaw,      \* per profile, << >> or the raw value of the last event naming it
  closeCalls,   \* how often on_close was invoked
  closeFault,   \* the exception the last on_close raised ("none" if none)
  cs            \* a bare call of _create_sound: its inputs and its outcome

vars == << pc, raised, exitCode, stdout, rootAlive, closeBound, mixerInit, slots,
           buildIdx, fileState, sounds, channels, value_labels, events, lastRaw,
           closeCalls, closeFault, cs >>

appVars == << sounds, channels, value_labels >>
NoCall == [stage |-> "none"]

\* everything but pc and cs, as it is when the process starts
Fresh ==
  /\ raised = "none"
  /\ exitCode = -1
  /\ stdout = {}
  /\ rootAlive = FALSE
  /\ closeBound = FALSE
  /\ mixerInit = FALSE
  /\ slots = [i \in 1..NumProfiles |-> IdleChannel]
  /\ buildIdx = 1
  /\ fileState = [i \in 1..NumProfiles |-> "unprobed"]
  /\ sounds = EmptyDict
  /\ channels = EmptyDict
  /\ value_labels = EmptyDict
  /\ events = 0
  /\ lastRaw = [n \in ProfileNames |-> << >>]
  /\ closeCalls = 0
  /\ closeFault = "none"

Init == pc = "main" /\ cs = NoCall /\ Fresh

\* the process ends: sys.exit(code), or an exception nobody catches
Exit(exc, code, lines) ==
  /\ pc' = "exited"
  /\ raised' = exc
  /\ exitCode' = code
  /\ stdout' = stdout \cup lines

\* main, lines 189-195: root = tk.Tk(), then the application is constructed
main ==
  /\ pc = "main"
  /\ \E display \in BOOLEAN :
       IF display
         THEN /\ pc' = "init_audio"
              /\ rootAlive' = TRUE
              /\ UNCHANGED << raised, exitCode, stdout >>
         ELSE /\ Exit("TclError", 1, {GuiErrMsg})
              /\ UNCHANGED rootAlive
  /\ UNCHANGED << closeBound, mixerInit, slots, buildIdx, fileState, appVars, events,
                  lastRaw, closeCalls, closeFault, cs >>

\* mutant: a failed pygame.mixer.init() is swallowed and construction goes on
init_audio_swallowed ==
  /\ pc = "init_audio"
  /\ \E device \in BOOLEAN :
       /\ mixerInit' = device
       /\ pc' = "build_sounds"
       /\ UNCHANGED << raised, exitCode, stdout >>
  /\ UNCHANGED << rootAlive, closeBound, slots, buildIdx, fileState, appVars, events,
                  lastRaw, closeCalls, closeFault, cs >>

\* _init_audio: pygame.mixer.init() may raise pygame.error, which nothing below
\* the __main__ guard catches; the guard prints it and exits with 1
init_audio ==
  /\ pc = "init_audio"
  /\ \E device \in BOOLEAN :
       IF device
         THEN /\ mixerInit' = TRUE
              /\ pc' = "build_sounds"
              /\ UNCHANGED << raised, exitCode, stdout >>
         ELSE /\ Exit("pygame.error", 1, {AudioErrMsg})
              /\ UNCHANGED mixerInit
  /\ UNCHANGED << rootAlive, closeBound, slots, buildIdx, fileState, appVars, events,
                  lastRaw, closeCalls, closeFault, cs >>

\* one iteration of _build_sounds: load, play looped, set the volume, register
build_sounds ==
  /\ pc = "build_sounds"
  /\ \E fstate \in FileStates :
       LET profile == SOUND_PROFILES[buildIdx]
           got     == load_sound(profile, fstate, IF mixerInit THEN 2 ELSE 0)
       IN  /\ fileState' = [fileState EXCEPT ![buildIdx] = fstate]
           /\ IF got.exc # "none"
                THEN /\ Exit(got.exc, 1, got.out)
                     /\ UNCHANGED << slots, buildIdx, sounds, channels >>
                ELSE /\ slots' = [slots EXCEPT ![buildIdx] =
                                    ChannelSetVolume(ChannelPlay(@, got.sound),
                                                     InitialVolume)]
                     /\ sounds' = Put(sounds, profile.name, got.sound)
                     /\ channels' = Put(channels, profile.name, buildIdx)
                     /\ buildIdx' = buildIdx + 1
                     /\ pc' = IF buildIdx = NumProfiles THEN "build_ui"
                              ELSE "build_sounds"
                     /\ stdout' = stdout \cup got.out
                     /\ UNCHANGED << raised, exitCode >>
  /\ UNCHANGED << rootAlive, closeBound, mixerInit, value_labels, events, lastRaw,
                  closeCalls, closeFault, cs >>

\* _build_ui and the end of __init__: the labels, then the close protocol
build_ui ==
  /\ pc = "build_ui"
  /\ value_labels' = [n \in ProfileNames |-> InitialLabel]
  /\ closeBound' = TRUE
  /\ pc' = "mainloop"
  /\ UNCHANGED << raised, exitCode, stdout, rootAlive, mixerInit, slots, buildIdx,
                  fileState, sounds, channels, events, lastRaw, closeCalls,
                  closeFault, cs >>

\* on_volume_change(name, raw_value)
on_volume_change(name, raw_value) ==
  LET volume == VolumeOf[raw_value]
  IN  /\ slots' = [i \in DOMAIN slots |->
                     IF i \in TargetChannels(name, channels)
                       THEN ChannelSetVolume(slots[i], volume) ELSE slots[i]]
      /\ value_labels' = [n \in DOMAIN value_labels |->
                            IF n \in TargetLabels(name, value_labels)
                              THEN LabelOf[raw_value] ELSE value_labels[n]]

\* a slider (or a stale control) delivers a volume-change event to the handler
VolumeChanged(name, raw_value) ==
  /\ pc = "mainloop"
  /\ rootAlive
  /\ events < MaxEvents
  /\ on_volume_change(name, raw_value)
  /\ events' = events + 1
  /\ lastRaw' = IF name \in DOMAIN lastRaw
                  THEN [lastRaw EXCEPT ![name] = << raw_value >>] ELSE lastRaw
  /\ UNCHANGED << pc, raised, exitCode, stdout, rootAlive, closeBound, mixerInit,
                  buildIdx, fileState, sounds, channels, closeCalls, closeFault, cs >>

\* on_close: channel.stop() raises pygame.error once the mixer has been quit,
\* master.destroy() raises TclError once the root has been destroyed
on_close ==
  /\ pc = "mainloop"
  /\ closeBound
  /\ closeCalls < MaxCloses
  /\ closeCalls' = closeCalls + 1
  /\ IF DOMAIN channels # {} /\ ~mixerInit
       THEN /\ closeFault' = "pygame.error"
            /\ UNCHANGED << slots, mixerInit, rootAlive >>
       ELSE /\ slots' = StopAll(slots, channels)
            /\ mixerInit' = FALSE
            /\ rootAlive' = FALSE
            /\ closeFault' = IF rootAlive THEN "none" ELSE "TclError"
  /\ UNCHANGED << pc, raised, exitCode, stdout, closeBound, buildIdx, fileState,
                  appVars, events, lastRaw, cs >>

\* root.mainloop() returns once the root is destroyed, and main returns
mainloop_return ==
  /\ pc = "mainloop"
  /\ ~rootAlive
  /\ pc' = "exited"
  /\ exitCode' = 0
  /\ UNCHANGED << raised, stdout, rootAlive, closeBound, mixerInit, slots, buildIdx,
                  fileState, appVars, events, lastRaw, closeCalls, closeFault, cs >>

Next ==
  \/ main
  \/ init_audio
  \/ build_sounds
  \/ build_ui
  \/ \E name \in EventNames, raw_value \in RawSamples : VolumeChanged(name, raw_value)
  \/ on_close
  \/ mainloop_return

Spec == Init /\ [][Next]_vars

(***************************************************************************)
(* The volume handler alone: one event, of any name and any raw value of   *)
(* RawRange, delivered to the application as __init__ leaves it when every *)
(* file loads.                                                             *)
(***************************************************************************)
Constructed ==
  /\ raised = "none"
  /\ exitCode = -1
  /\ stdout = {}
  /\ rootAlive = TRUE
  /\ closeBound = TRUE
  /\ mixerInit = TRUE
  /\ slots = [i \in 1..NumProfiles |->
                [sound |-> FileSound(SOUND_PROFILES[i].filename),
                 state |-> "Looping", volume |-> InitialVolume]]
  /\ buildIdx = NumProfiles + 1
  /\ fileState = [i \in 1..NumProfiles |-> "ok"]
  /\ sounds = [n \in ProfileNames |-> FileSound(SOUND_PROFILES[SlotOf(n)].filename)]
  /\ channels = [n \in ProfileNames |-> SlotOf(n)]
  /\ value_labels = [n \in ProfileNames |-> InitialLabel]
  /\ events = 0
  /\ lastRaw = [n \in ProfileNames |-> << >>]
  /\ closeCalls = 0
  /\ closeFault = "none"

InitGain == pc = "mainloop" /\ cs = NoCall /\ Constructed

NextGain ==
  \E name \in EventNames, raw_value \in RawRange :
    events = 0 /\ VolumeChanged(name, raw_value)

SpecGain == InitGain /\ [][NextGain]_vars

(***************************************************************************)
(* _create_sound alone: called on any generated signal of at most          *)
(* MaxFrames samples, under any mixer layout.                              *)
(***************************************************************************)
Signals == UNION { [1..n -> SampleValues] : n \in 0..MaxFrames }

InitCreate ==
  /\ pc = "create_sound"
  /\ Fresh
  /\ \E signal \in Signals, mixer \in MixerLayouts :
       cs = [stage |-> "call", signal |-> signal, mixer |-> mixer]

CreateSoundCall ==
  /\ pc = "create_sound"
  /\ cs.stage = "call"
  /\ LET got == create_sound(cs.signal, cs.mixer)
     IN  /\ cs' = [stage  |-> IF got.exc = "none" THEN "returned" ELSE "raised",
                   signal |-> cs.signal, mixer |-> cs.mixer,
                   exc |-> got.exc, sound |-> got.sound]
         /\ stdout' = stdout \cup got.out
  /\ UNCHANGED << pc, raised, exitCode, rootAlive, closeBound, mixerInit, slots,
                  buildIdx, fileState, appVars, events, lastRaw, closeCalls,
                  closeFault >>

NextCreate == CreateSoundCall

SpecCreate == InitCreate /\ [][NextCreate]_vars

(***************************************************************************)
(* Helpers of the properties below.                                        *)
(***************************************************************************)
\* a <= b for bit sequences without leading zeros
BitsLeq(a, b) ==
  IF Len(a) # Len(b) THEN Len(a) < Len(b)
  ELSE \/ a = b
       \/ \E i \in 1..Len(a) : a[i] < b[i] /\ \A j \in (i + 1)..Len(a) : a[j] = b[j]

\* x is a float nearest to the fraction num / den (0 <= num, 0 < den, x.e <= 0):
\* |x - num/den| is at most half a unit in x's last place
IsNearest(x, num, den) ==
  IF num = 0 THEN x = FZero
  ELSE /\ x.s = 1
       /\ x.e <= 0
       /\ LET L == MulAdd(Mant(x), 2 * den, 0)
              R == Shl(NatToBits(2 * num), -x.e)
          IN  BitsLeq(L, MulAdd(R, 1, den)) /\ BitsLeq(R, MulAdd(L, 1, den))

\* a raw value clamped to 0..100
ClampInt(v) == IF v < 0 THEN 0 ELSE IF v > 100 THEN 100 ELSE v

GainOf(n) == slots[channels[n]].volume
AllStopped == \A i \in 1..NumProfiles : slots[i].state = "Stopped"

(***************************************************************************)
(* C1.  Every channel's playback state follows Stopped -> Looping ->       *)
(* Stopped: a channel enters Looping only in the iteration of              *)
(* _build_sounds that handles its profile (and every completed iteration   *)
(* puts its channel into Looping), the iterations never go back, a         *)
(* volume-change event changes no playback state, a channel leaves Looping *)
(* only in on_close, and once on_close has run no channel is Looping.      *)
(***************************************************************************)
C1_Step ==
  /\ buildIdx' >= buildIdx
  /\ \A i \in 1..NumProfiles :
       /\ (slots[i].state = "Stopped" /\ slots'[i].state = "Looping")
            => (pc = "build_sounds" /\ buildIdx = i /\ buildIdx' = i + 1
                /\ closeCalls = 0)
       /\ (buildIdx = i /\ buildIdx' = i + 1)
            => (slots[i].state = "Stopped" /\ slots'[i].state = "Looping")
       /\ (slots[i].state = "Looping" /\ slots'[i].state = "Stopped")
            => closeCalls' = closeCalls + 1
       /\ events' # events => slots'[i].state = slots[i].state
       /\ closeCalls' > 0 => slots'[i].state = "Stopped"
C1_Lifecycle == [][C1_Step]_vars
\* a run with a volume event, closed, whose channels had all been looping
C1_Witness ==
  /\ closeCalls > 0 /\ events > 0 /\ AllStopped
  /\ \A i \in 1..NumProfiles : slots[i].sound # NoSound

(***************************************************************************)
(* C2.  A second on_close after a first successful one raises no fault and *)
(* leaves all channels stopped and the device released.                    *)
(***************************************************************************)
C2_Idempotent ==
  closeCalls >= 2 => (closeFault = "none" /\ AllStopped /\ ~mixerInit)

(***************************************************************************)
(* C3.  _load_sound never raises: for a profile whose file is missing or   *)
(* fails to decode a diagnostic is printed, a sound is returned and the    *)
(* profile's channel is bound to it and started.                           *)
(***************************************************************************)
C3_NeverRaises ==
  \A i \in 1..NumProfiles :
    fileState[i] \in {"missing", "corrupt"} =>
      /\ raised = "none"
      /\ (MissingMsg(SOUND_PROFILES[i]) \in stdout
          \/ UnableMsg(SOUND_PROFILES[i]) \in stdout)
      /\ SOUND_PROFILES[i].name \in DOMAIN sounds
      /\ slots[i].sound # NoSound

(***************************************************************************)
(* C4.  After on_volume_change(name, v) for a known name, the channel's    *)
(* gain is v/100 clamped to [0.0, 1.0] and the reported percentage is the  *)
(* clamped value as an integer: v for v in 0..100, 100 above, 0 below.     *)
(***************************************************************************)
C4_SetGain ==
  \A n \in ProfileNames :
    lastRaw[n] # << >> =>
      /\ IsNearest(GainOf(n), ClampInt(lastRaw[n][1]), 100)
      /\ value_labels[n] = ClampInt(lastRaw[n][1])

(***************************************************************************)
(* C5.  on_volume_change with a name that is no channel of the mixer       *)
(* changes no gain, no playback state and no reported percentage, and      *)
(* raises nothing, whatever the raw value.                                 *)
(***************************************************************************)
C5_Step ==
  (events' = events + 1 /\ lastRaw' = lastRaw) =>
    /\ slots' = slots
    /\ value_labels' = value_labels
    /\ raised' = raised /\ closeFault' = closeFault /\ pc' = pc
C5_UnknownNoOp == [][C5_Step]_vars
\* an event with an unknown name has been handled
C5_Witness == events = 1 /\ \A n \in ProfileNames : lastRaw[n] = << >>

(***************************************************************************)
(* C6.  The process never ends with the audio device still initialised or  *)
(* a channel still looping: shutdown has run on every exit path.           *)
(***************************************************************************)
C6_ShutdownOnExit == pc = "exited" => (~mixerInit /\ AllStopped)

(***************************************************************************)
(* C7.  A failure of the audio subsystem to initialise leaves main as a    *)
(* startup error (pygame.error, reported, exit status 1), with no sound    *)
(* built and no channel created or started; construction goes on to build  *)
(* sounds only with an initialised device.                                 *)
(***************************************************************************)
C7_DeviceInitFailure ==
  /\ raised = "pygame.error" =>
       /\ pc = "exited" /\ exitCode = 1 /\ AudioErrMsg \in stdout
       /\ ~mixerInit
       /\ DOMAIN sounds = {} /\ DOMAIN channels = {}
       /\ \A i \in 1..NumProfiles : slots[i] = IdleChannel
  /\ pc \in {"build_sounds", "build_ui"} => mixerInit
  /\ (DOMAIN sounds # {} \/ ~AllStopped) => raised # "pygame.error"
C7_Witness == raised = "pygame.error" /\ pc = "exited"

C9_Initialized ==
  (pc = "mainloop" /\ events = 0 /\ closeCalls = 0) =>
    /\ Cardinality(ProfileNames) = 8
    /\ DOMAIN channels = ProfileNames /\ DOMAIN sounds = ProfileNames
    /\ DOMAIN value_labels = ProfileNames
    /\ \A a, b \in ProfileNames : channels[a] = channels[b] => a = b
    /\ \A n \in ProfileNames :
         /\ channels[n] \in 1..NumProfiles
         /\ SOUND_PROFILES[channels[n]].name = n
         /\ sounds[n] # NoSound
         /\ slots[channels[n]].sound = sounds[n]
         /\ slots[channels[n]].state = "Looping"
         /\ IsNearest(GainOf(n), 1, 2)
         /\ value_labels[n] = 50
C9_Witness == pc = "mainloop" /\ events = 0 /\ closeCalls = 0 /\ rootAlive

(***************************************************************************)
(* C10.  Every channel's gain lies in [0.0, 1.0] and is the clamped value  *)
(* of the last event that named the channel, 0.5 if none did: an event     *)
(* changes no other channel's gain, and nothing else changes a gain.       *)
(***************************************************************************)
C10_GainInvariant ==
  \A n \in DOMAIN channels :
    /\ ~FLess(GainOf(n), FZero)
    /\ ~FLess(FOne, GainOf(n))
    /\ IF lastRaw[n] = << >> THEN IsNearest(GainOf(n), 1, 2)
       ELSE IsNearest(GainOf(n), ClampInt(lastRaw[n][1]), 100)
\* two events naming two channels, one of them out of range, a third untouched
C10_Witness ==
  /\ lastRaw["Fire"] = << 75 >>
  /\ lastRaw["Wind"] = << 100 + RawOver >>
  /\ lastRaw["Birds"] = << >>
  /\ pc = "mainloop"

=============================================================================
